---- MODULE Spec2Model ----
(***************************************************************************)
(* A model of the two mergeable heaps of the repository:                   *)
(*   alg::Bheap   (src/Bheap.hpp)  - binomial heap                         *)
(*   alg::FibHeap (src/FibHeap.h)  - Fibonacci heap                        *)
(* Nodes live in an arena 1..n (Nodes); the null pointer is 0.  A node is *)
(* never reused: std::shared_ptr keeps a popped node alive for as long as  *)
(* some pointer still refers to it, so stale pointers stay observable.     *)
(* A client program drives two heap objects "A" and "B" of one class.      *)
(***************************************************************************)
EXTENDS Integers, Sequences, FiniteSets, TLC

\* the client inserts at most MaxNodes keys, drawn from 1..MaxKey
MaxNodes == 5
MaxKey == 3

\* the seeded client starts from the heap that SeedNodes inserts of one key
\* and one pop leave behind
SeedNodes == 9

Null == 0
Nodes == 1..(IF SeedNodes > MaxNodes THEN SeedNodes ELSE MaxNodes)
Keys == 1..MaxKey
HeapIds == {"A", "B"}

\* what one client may do: MaxNodes inserts of keys below MaxKey, or one
\* insert less with every key up to MaxKey
Scopes == {[nodes |-> MaxNodes, keys |-> MaxKey - 1],
           [nodes |-> MaxNodes - 1, keys |-> MaxKey]}

VARIABLES
    kind,      \* which class the client instantiates: "Bheap" or "FibHeap"
    scope,     \* the client's budget: [nodes, keys]
    bnode,     \* Bheap: node -> [key, p, child, sibling, degree]
    bheap,     \* Bheap: heap id -> [head, size]
    fnode,     \* FibHeap: node -> [key, p, child, left, right, degree, mark]
    fheap,     \* FibHeap: heap id -> [min, size]
    handle,    \* the client's NodePtr variables: handle[i] was returned by the i-th insert
    owner,     \* node -> "free" (not allocated), "A"/"B" (inserted, not popped), "popped"
    pending,   \* heap id -> bag of the keys the heap held at its last insert/meld/decrease
    out,       \* heap id -> keys returned by pop since then
    cnt,       \* heap id -> keys inserted (or received by meld) minus keys popped
    phase,     \* "build" (inserts only so far), "melded" (then one add_heap, then pops), "mixed"
    invalidated, \* TRUE once B was merged into A ("H2 is invalidated after merge")
    ret        \* outcome of the last call: [op, h, status, val]; val is the value
               \* returned, or for decrease_key 1 when the new key was above the node's

vars == <<kind, scope, bnode, bheap, fnode, fheap, handle, owner, pending, out, cnt, phase,
          invalidated, ret>>

bvars == <<bnode, bheap>>
fvars == <<fnode, fheap>>

----------------------------------------------------------------------------
(* Bags of keys, as functions Keys -> Nat *)

EmptyBag == [k \in Keys |-> 0]

BagAdd(b, k) == [b EXCEPT ![k] = @ + 1]

BagOfSeq(s) == [k \in Keys |-> Cardinality({i \in DOMAIN s : s[i] = k})]

BagMinus(b, c) == [k \in Keys |-> IF b[k] > c[k] THEN b[k] - c[k] ELSE 0]

BagPlus(b, c) == [k \in Keys |-> b[k] + c[k]]

BagIsEmpty(b) == \A k \in Keys : b[k] = 0

BagMin(b) == CHOOSE k \in Keys : b[k] > 0 /\ \A j \in Keys : b[j] > 0 => k <= j

IsSorted(s) == \A i \in 1..(Len(s) - 1) : s[i] <= s[i + 1]

\* the keys a heap holds by its contract: those of the last fill not popped since
Stored(h) == BagMinus(pending[h], BagOfSeq(out[h]))

Allocated == Cardinality({n \in Nodes : owner[n] # "free"})

Members(h) == {n \in Nodes : owner[n] = h}

----------------------------------------------------------------------------
(* alg::Bheap *)

BNewNode == [key |-> 0, p |-> Null, child |-> Null, sibling |-> Null, degree |-> 0]

\* y becomes the first child of z
link_nodes(nd, y, z) ==
    LET n1 == [nd EXCEPT ![y].p = z]
        n2 == [n1 EXCEPT ![y].sibling = n1[z].child]
        n3 == [n2 EXCEPT ![z].child = y]
    IN  [n3 EXCEPT ![z].degree = @ + 1]

\* inner loop of merge_heads: find the place for insertion
RECURSIVE merge_find(_, _, _)
merge_find(nd, insert_point, inserted) ==
    IF nd[insert_point].sibling # Null
       /\ nd[nd[insert_point].sibling].degree < nd[inserted].degree
    THEN merge_find(nd, nd[insert_point].sibling, inserted)
    ELSE insert_point

\* outer loop of merge_heads: splice every node of the inserted chain in
RECURSIVE merge_loop(_, _, _)
merge_loop(nd, insert_point, inserted) ==
    IF inserted = Null THEN nd
    ELSE LET ip == merge_find(nd, insert_point, inserted)
             tmp == nd[ip].sibling
             n1 == [nd EXCEPT ![ip].sibling = inserted]
             next_inserted == n1[inserted].sibling
             n2 == [n1 EXCEPT ![inserted].sibling = tmp]
         IN  merge_loop(n2, ip, next_inserted)

\* merge_heads(h1, h2) of the heap whose head is `head`: [nd, new_head]
merge_heads(nd, head, h1, h2) ==
    LET swap == nd[head].degree > nd[h2].degree
        new_head == IF swap THEN h2 ELSE h1
        inserted == IF swap THEN h1 ELSE h2
    IN  [nd |-> merge_loop(nd, new_head, inserted), new_head |-> new_head]

\* the carry scan of add_heap_head: [nd, new_head]
RECURSIVE carry_scan(_, _, _, _)
\* carry scan that links two neighbouring roots whatever their degrees
carry_scan_ignores_degree(nd, new_head, prev_x, x) ==
    LET next_x == nd[x].sibling IN
    IF next_x = Null THEN [nd |-> nd, new_head |-> new_head]
    ELSE IF nd[x].key < nd[next_x].key
    THEN LET n1 == [nd EXCEPT ![x].sibling = nd[next_x].sibling]
         IN  carry_scan(link_nodes(n1, next_x, x), new_head, prev_x, x)
    ELSE LET nh == IF prev_x = Null THEN next_x ELSE new_head
             n1 == IF prev_x = Null THEN nd
                   ELSE [nd EXCEPT ![prev_x].sibling = next_x]
         IN  carry_scan(link_nodes(n1, x, next_x), nh, prev_x, next_x)

carry_scan(nd, new_head, prev_x, x) ==
    LET next_x == nd[x].sibling IN
    IF next_x = Null THEN [nd |-> nd, new_head |-> new_head]
    ELSE IF nd[x].degree # nd[next_x].degree
            \/ (nd[next_x].sibling # Null
                /\ nd[nd[next_x].sibling].degree = nd[x].degree)
    THEN carry_scan(nd, new_head, x, next_x)                        \* case 1 and 2
    ELSE IF nd[x].key < nd[next_x].key
    THEN LET n1 == [nd EXCEPT ![x].sibling = nd[next_x].sibling]    \* case 3
         IN  carry_scan(link_nodes(n1, next_x, x), new_head, prev_x, x)
    ELSE LET nh == IF prev_x = Null THEN next_x ELSE new_head       \* case 4
             n1 == IF prev_x = Null THEN nd
                   ELSE [nd EXCEPT ![prev_x].sibling = next_x]
         IN  carry_scan(link_nodes(n1, x, next_x), nh, prev_x, next_x)

\* add_heap_head(h2head) on the heap whose head is `head`: [nd, head]
add_heap_head(nd, head, h2head) ==
    IF h2head = Null THEN [nd |-> nd, head |-> head]
    ELSE IF head = Null THEN [nd |-> nd, head |-> h2head]
    ELSE LET m == merge_heads(nd, head, head, h2head)
             r == carry_scan(m.nd, m.new_head, Null, m.new_head)
         IN  [nd |-> r.nd, head |-> r.new_head]

\* the root scan shared by get_min_node and pop: [min, prev_min]
RECURSIVE min_scan(_, _, _, _, _)
min_scan(nd, x, prev_x, min, prev_min) ==
    IF x = Null THEN [min |-> min, prev_min |-> prev_min]
    ELSE IF nd[x].key < nd[min].key
    THEN min_scan(nd, nd[x].sibling, x, x, prev_x)
    ELSE min_scan(nd, nd[x].sibling, x, min, prev_min)

\* the node get_min_node computes in its local variable min (head must not be null)
get_min_node(nd, head) == min_scan(nd, nd[head].sibling, head, head, head).min

\* the program runs: no call has crashed or hung it
Running == ret.status \notin {"crash", "hang"}

Usable(h) == h = "A" \/ ~invalidated

NewNodeId == Allocated + 1

Ret(op, h, status, val) == [op |-> op, h |-> h, status |-> status, val |-> val]

\* NodePtr insert(const T &d)
BheapInsert(h) ==
    /\ kind = "Bheap" /\ Running /\ Usable(h)
    /\ Allocated < scope.nodes
    /\ \E d \in 1..scope.keys :
         LET x == NewNodeId
             n1 == [bnode EXCEPT ![x] = [BNewNode EXCEPT !.key = d]]
             r == add_heap_head(n1, bheap[h].head, x)
         IN  /\ bnode' = r.nd
             /\ bheap' = [bheap EXCEPT ![h] = [head |-> r.head, size |-> @.size + 1]]
             /\ handle' = [handle EXCEPT ![x] = x]
             /\ owner' = [owner EXCEPT ![x] = h]
             /\ pending' = [pending EXCEPT ![h] = BagAdd(Stored(h), d)]
             /\ out' = [out EXCEPT ![h] = <<>>]
             /\ cnt' = [cnt EXCEPT ![h] = @ + 1]
             /\ phase' = IF phase = "build" THEN "build" ELSE "mixed"
             /\ ret' = Ret("insert", h, "ok", 0)
    /\ UNCHANGED <<kind, scope, fvars, invalidated>>

\* the loop of pop that clears the parent of every node of the chain
RECURSIVE clear_parents(_, _)
clear_parents(nd, x) ==
    IF x = Null THEN nd
    ELSE clear_parents([nd EXCEPT ![x].p = Null], nd[x].sibling)

\* the body of pop after the size check: [nd, head, min]
pop_body(nd, head) ==
    LET s == min_scan(nd, nd[head].sibling, head, head, head)
        min == s.min
        head1 == IF head = min THEN nd[min].sibling ELSE head
        n1 == IF head = min THEN nd
              ELSE [nd EXCEPT ![s.prev_min].sibling = nd[min].sibling]
        add_head == n1[min].child
        n2 == clear_parents(n1, add_head)
        r == add_heap_head(n2, head1, add_head)
    IN  [nd |-> r.nd, head |-> r.head, min |-> min]

\* pop without its size check
BheapPop_unchecked(h) ==
    /\ kind = "Bheap" /\ Running /\ Usable(h)
    /\ IF bheap[h].head = Null
       THEN /\ ret' = Ret("pop", h, "crash", 0)
            /\ UNCHANGED <<bvars, owner, out, cnt, phase>>
       ELSE LET r == pop_body(bnode, bheap[h].head) IN
            /\ bnode' = r.nd
            /\ bheap' = [bheap EXCEPT ![h] = [head |-> r.head, size |-> @.size - 1]]
            /\ owner' = [owner EXCEPT ![r.min] = "popped"]
            /\ out' = [out EXCEPT ![h] = Append(@, r.nd[r.min].key)]
            /\ cnt' = [cnt EXCEPT ![h] = @ - 1]
            /\ phase' = IF phase = "melded" /\ h = "A" THEN "melded" ELSE "mixed"
            /\ ret' = Ret("pop", h, "ok", r.nd[r.min].key)
    /\ UNCHANGED <<kind, scope, fvars, handle, pending, invalidated>>

\* T pop()
BheapPop(h) ==
    /\ kind = "Bheap" /\ Running /\ Usable(h)
    /\ IF bheap[h].size < 1
       THEN /\ ret' = Ret("pop", h, "out_of_range", 0)
            /\ UNCHANGED <<bvars, owner, out, cnt, phase>>
       ELSE IF bheap[h].head = Null
       THEN \* head->sibling through a null head: undefined behaviour
            /\ ret' = Ret("pop", h, "crash", 0)
            /\ UNCHANGED <<bvars, owner, out, cnt, phase>>
       ELSE LET r == pop_body(bnode, bheap[h].head) IN
            /\ bnode' = r.nd
            /\ bheap' = [bheap EXCEPT ![h] = [head |-> r.head, size |-> @.size - 1]]
            /\ owner' = [owner EXCEPT ![r.min] = "popped"]
            /\ out' = [out EXCEPT ![h] = Append(@, r.nd[r.min].key)]
            /\ cnt' = [cnt EXCEPT ![h] = @ - 1]
            /\ phase' = IF phase = "melded" /\ h = "A" THEN "melded" ELSE "mixed"
            /\ ret' = Ret("pop", h, "ok", r.nd[r.min].key)
    /\ UNCHANGED <<kind, scope, fvars, handle, pending, invalidated>>

\* const T &get_min(): get_min_node returns a reference to its local variable
\* min, which is dead when get_min reads it (undefined behaviour): a build
\* either still finds the pointer in the dead stack slot, or was compiled to
\* return a null reference and crashes.  A null head is dereferenced.
BheapGetMinOutcomes(h) ==
    IF bheap[h].head = Null
    THEN {Ret("get_min", h, "crash", 0)}
    ELSE {Ret("get_min", h, "ok", bnode[get_min_node(bnode, bheap[h].head)].key),
          Ret("get_min", h, "crash", 0)}

BheapGetMin(h) ==
    /\ kind = "Bheap" /\ Running /\ Usable(h)
    /\ ret' \in BheapGetMinOutcomes(h)
    /\ UNCHANGED <<kind, scope, bvars, fvars, handle, owner, pending, out, cnt, phase, invalidated>>

\* void decrease_key(NodePtr &x, const T &new_key), the sift-up loop.  y is a
\* reference to the caller's handle x and z a reference to the field p of the
\* node x referred to on entry (n0): "y = z" moves the caller's handle and
\* "z = y->p" overwrites n0's parent pointer.  [nd, y]
RECURSIVE sift_up(_, _, _)
sift_up(nd, n0, y) ==
    LET z == nd[n0].p IN
    IF z # Null /\ nd[y].key < nd[z].key
    THEN LET n1 == [nd EXCEPT ![y].key = nd[z].key, ![z].key = nd[y].key]
             y1 == z
             n2 == [n1 EXCEPT ![n0].p = n1[y1].p]
         IN  sift_up(n2, n0, y1)
    ELSE [nd |-> nd, y |-> y]

\* decrease_key that stores the new key before it checks it
decrease_key_stores_first(nd, x, new_key) ==
    IF nd[x].key < new_key
    THEN [nd |-> [nd EXCEPT ![x].key = new_key], y |-> x, threw |-> TRUE]
    ELSE LET r == sift_up([nd EXCEPT ![x].key = new_key], x, x)
         IN  [nd |-> r.nd, y |-> r.y, threw |-> FALSE]

\* decrease_key on the node the handle x refers to: [nd, y, threw]; y is the
\* node the caller's handle refers to when the call returns
decrease_key(nd, x, new_key) ==
    IF nd[x].key < new_key
    THEN [nd |-> nd, y |-> x, threw |-> TRUE]
    ELSE LET r == sift_up([nd EXCEPT ![x].key = new_key], x, x)
         IN  [nd |-> r.nd, y |-> r.y, threw |-> FALSE]

\* the keys held after the key c of one node was lowered to k
BagLower(b, c, k) == BagAdd(BagMinus(b, BagAdd(EmptyBag, c)), k)

BheapDecreaseKey ==
    /\ kind = "Bheap" /\ Running
    /\ \E i \in Nodes, new_key \in 1..scope.keys :
         LET x == handle[i] IN
         /\ x # Null /\ owner[x] \in HeapIds
         /\ LET r == decrease_key(bnode, x, new_key)
                h == owner[x]
            IN  /\ bnode' = r.nd
                /\ handle' = [handle EXCEPT ![i] = r.y]
                /\ UNCHANGED bheap
                /\ ret' = Ret("decrease_key", h, IF r.threw THEN "out_of_range" ELSE "ok",
                              IF bnode[x].key < new_key THEN 1 ELSE 0)
                /\ IF r.threw
                   THEN /\ UNCHANGED <<pending, out, phase>>
                   ELSE /\ pending' = [pending EXCEPT
                                         ![h] = BagLower(Stored(h), bnode[x].key, new_key)]
                        /\ out' = [out EXCEPT ![h] = <<>>]
                        /\ phase' = "mixed"
    /\ UNCHANGED <<kind, scope, fvars, owner, cnt, invalidated>>

\* void add_heap(Bheap<T> &H2), called as A.add_heap(B): neither _size is touched
BheapAddHeap ==
    /\ kind = "Bheap" /\ Running /\ ~invalidated
    /\ LET r == add_heap_head(bnode, bheap["A"].head, bheap["B"].head) IN
         /\ bnode' = r.nd
         /\ bheap' = [bheap EXCEPT !["A"].head = r.head]
    /\ owner' = [n \in Nodes |-> IF owner[n] = "B" THEN "A" ELSE owner[n]]
    /\ pending' = [pending EXCEPT !["A"] = BagPlus(Stored("A"), Stored("B")),
                                  !["B"] = EmptyBag]
    /\ out' = [h \in HeapIds |-> <<>>]
    /\ cnt' = [cnt EXCEPT !["A"] = cnt["A"] + cnt["B"], !["B"] = 0]
    /\ phase' = IF phase = "build" THEN "melded" ELSE "mixed"
    /\ invalidated' = TRUE
    /\ ret' = Ret("add_heap", "A", "ok", 0)
    /\ UNCHANGED <<kind, scope, fvars, handle>>

----------------------------------------------------------------------------
(* alg::FibHeap *)

FNewNode == [key |-> 0, p |-> Null, child |-> Null, left |-> Null, right |-> Null,
             degree |-> 0, mark |-> FALSE]

\* insert_node without its final comparison: the minimum pointer is never moved
insert_node_keeps_min(nd, min, x) ==
    LET m == IF min = Null THEN x ELSE min
        l == nd[m].left
        n1 == [nd EXCEPT ![l].right = x]
        n2 == [n1 EXCEPT ![x].left = l]
        n3 == [n2 EXCEPT ![m].left = x]
        n4 == [n3 EXCEPT ![x].right = m]
    IN  [nd |-> n4, min |-> m]

\* void insert_node(NodePtr &x) on the heap whose minimum pointer is min: [nd, min]
insert_node(nd, min, x) ==
    LET m == IF min = Null THEN x ELSE min
        l == nd[m].left
        n1 == [nd EXCEPT ![l].right = x]
        n2 == [n1 EXCEPT ![x].left = l]
        n3 == [n2 EXCEPT ![m].left = x]
        n4 == [n3 EXCEPT ![x].right = m]
    IN  [nd |-> n4, min |-> IF n4[x].key < n4[m].key THEN x ELSE m]

\* fib_link that forgets r->left = y when y joins a child ring
fib_link_one_way(nd, y, x) ==
    LET n1 == [nd EXCEPT ![nd[y].right].left = nd[y].left]
        n2 == [n1 EXCEPT ![n1[y].left].right = n1[y].right]
        n3 == [n2 EXCEPT ![y].left = y]
        n4 == [n3 EXCEPT ![y].right = y]
        n5 == IF n4[x].child = Null
              THEN [[n4 EXCEPT ![x].child = y] EXCEPT ![y].p = x]
              ELSE LET c == n4[x].child
                       r == n4[c].right
                       a1 == [n4 EXCEPT ![c].right = y]
                       a2 == [a1 EXCEPT ![y].left = c]
                       a4 == [a2 EXCEPT ![y].right = r]
                   IN  [a4 EXCEPT ![y].p = x]
        n6 == [n5 EXCEPT ![x].degree = @ + 1]
    IN  [n6 EXCEPT ![y].mark = FALSE]

\* void fib_link(NodePtr &y, NodePtr &x): y leaves its ring and becomes a child of x
fib_link(nd, y, x) ==
    LET n1 == [nd EXCEPT ![nd[y].right].left = nd[y].left]
        n2 == [n1 EXCEPT ![n1[y].left].right = n1[y].right]
        n3 == [n2 EXCEPT ![y].left = y]
        n4 == [n3 EXCEPT ![y].right = y]
        n5 == IF n4[x].child = Null
              THEN [[n4 EXCEPT ![x].child = y] EXCEPT ![y].p = x]
              ELSE LET c == n4[x].child
                       r == n4[c].right
                       a1 == [n4 EXCEPT ![c].right = y]
                       a2 == [a1 EXCEPT ![y].left = c]
                       a3 == [a2 EXCEPT ![r].left = y]
                       a4 == [a3 EXCEPT ![y].right = r]
                   IN  [a4 EXCEPT ![y].p = x]
        n6 == [n5 EXCEPT ![x].degree = @ + 1]
    IN  [n6 EXCEPT ![y].mark = FALSE]

\* the do-while of consolidate that collects the root ring into orig_nodes:
\* [ok, nodes]; ok is FALSE when following right never comes back to min
RECURSIVE ring_walk(_, _, _, _)
ring_walk(nd, min, x, acc) ==
    LET acc1 == Append(acc, x)
        nx == nd[x].right
    IN  IF nx = min THEN [ok |-> TRUE, nodes |-> acc1]
        ELSE IF \E i \in DOMAIN acc1 : acc1[i] = nx THEN [ok |-> FALSE, nodes |-> acc1]
        ELSE ring_walk(nd, min, nx, acc1)

SeqMax(f, q) == IF q = <<>> THEN 0
                ELSE CHOOSE m \in {f[q[i]] : i \in DOMAIN q} :
                        \A i \in DOMAIN q : f[q[i]] <= m

\* the while loop of consolidate for one root x with degree d: [nd, A, oob]
RECURSIVE bucket_link(_, _, _, _)

\* bucket_link without the swap: the bucket's node always becomes the child
bucket_link_no_swap(nd, A, x, d) ==
    IF d \notin DOMAIN A THEN [nd |-> nd, A |-> A, oob |-> TRUE]
    ELSE IF A[d] # Null
    THEN bucket_link(fib_link(nd, A[d], x), [A EXCEPT ![d] = Null], x, d + 1)
    ELSE [nd |-> nd, A |-> [A EXCEPT ![d] = x], oob |-> FALSE]

\* bucket_link that moves on to the next bucket instead of linking
bucket_link_skips(nd, A, x, d) ==
    IF d \notin DOMAIN A THEN [nd |-> nd, A |-> A, oob |-> TRUE]
    ELSE IF A[d] # Null
    THEN bucket_link(nd, A, x, d + 1)
    ELSE [nd |-> nd, A |-> [A EXCEPT ![d] = x], oob |-> FALSE]

bucket_link(nd, A, x, d) ==
    IF d \notin DOMAIN A THEN [nd |-> nd, A |-> A, oob |-> TRUE]
    ELSE IF A[d] # Null
    THEN LET y == A[d]
             swap == nd[y].key < nd[x].key
             x1 == IF swap THEN y ELSE x
             y1 == IF swap THEN x ELSE y
         IN  bucket_link(fib_link(nd, y1, x1), [A EXCEPT ![d] = Null], x1, d + 1)
    ELSE [nd |-> nd, A |-> [A EXCEPT ![d] = x], oob |-> FALSE]

\* the for loop of consolidate over orig_nodes: [nd, A, oob]
RECURSIVE bucket_all(_, _, _, _)
bucket_all(nd, A, orig_nodes, i) ==
    IF i > Len(orig_nodes) THEN [nd |-> nd, A |-> A, oob |-> FALSE]
    ELSE LET x == orig_nodes[i]
             r == bucket_link(nd, A, x, nd[x].degree)
         IN  IF r.oob THEN r ELSE bucket_all(r.nd, r.A, orig_nodes, i + 1)

\* the last loop of consolidate: insert_node for every filled bucket: [nd, min]
RECURSIVE rebuild(_, _, _, _)
rebuild(nd, min, A, i) ==
    IF i \notin DOMAIN A THEN [nd |-> nd, min |-> min]
    ELSE IF A[i] # Null
    THEN LET r == insert_node(nd, min, A[i]) IN rebuild(r.nd, r.min, A, i + 1)
    ELSE rebuild(nd, min, A, i + 1)

\* consolidate whose bucket vector has one slot for each root and none for max_d
consolidate_by_count(nd, min) ==
    IF min = Null THEN [nd |-> nd, min |-> Null, status |-> "ok"]
    ELSE LET w == ring_walk(nd, min, min, <<>>) IN
         IF ~w.ok THEN [nd |-> nd, min |-> min, status |-> "hang"]
         ELSE LET orig_nodes == w.nodes
                  A0 == [i \in 0..(Len(orig_nodes) - 1) |-> Null]
                  b == bucket_all(nd, A0, orig_nodes, 1)
              IN  IF b.oob THEN [nd |-> b.nd, min |-> min, status |-> "crash"]
                  ELSE LET r == rebuild(b.nd, Null, b.A, 0)
                       IN  [nd |-> r.nd, min |-> r.min, status |-> "ok"]

\* void consolidate(): [nd, min, status]; status is "hang" when the root ring
\* does not close, "crash" when a bucket index leaves the vector
consolidate(nd, min) ==
    IF min = Null THEN [nd |-> nd, min |-> Null, status |-> "ok"]
    ELSE LET w == ring_walk(nd, min, min, <<>>) IN
         IF ~w.ok THEN [nd |-> nd, min |-> min, status |-> "hang"]
         ELSE LET orig_nodes == w.nodes
                  max_d == SeqMax([n \in Nodes |-> nd[n].degree], orig_nodes)
                  num_trees == Len(orig_nodes)
                  node_vec_size == max_d + num_trees
                  A0 == [i \in 0..(node_vec_size - 1) |-> Null]
                  b == bucket_all(nd, A0, orig_nodes, 1)
              IN  IF b.oob THEN [nd |-> b.nd, min |-> min, status |-> "crash"]
                  ELSE LET r == rebuild(b.nd, Null, b.A, 0)
                       IN  [nd |-> r.nd, min |-> r.min, status |-> "ok"]

\* void cut(NodePtr &x, NodePtr &y): x leaves the children of y and joins the roots
cut(nd, min, x, y) ==
    LET n1 == IF nd[x].right # x
              THEN LET a1 == [nd EXCEPT ![y].child = nd[x].right]
                       a2 == [a1 EXCEPT ![a1[x].right].left = a1[x].left]
                   IN  [a2 EXCEPT ![a2[x].left].right = a2[x].right]
              ELSE [nd EXCEPT ![y].child = Null]
        n2 == [n1 EXCEPT ![y].degree = @ - 1]
        n3 == [n2 EXCEPT ![x].p = Null]
        n4 == [n3 EXCEPT ![x].mark = FALSE]
    IN  insert_node(n4, min, x)

\* cascading_cut that marks a non-root it reaches and never cuts it
cascading_cut_marks_only(nd, min, y) ==
    IF nd[y].p = Null THEN [nd |-> nd, min |-> min]
    ELSE [nd |-> [nd EXCEPT ![y].mark = TRUE], min |-> min]

\* void cascading_cut(NodePtr &y): [nd, min]
RECURSIVE cascading_cut(_, _, _)
cascading_cut(nd, min, y) ==
    LET z == nd[y].p IN
    IF z = Null THEN [nd |-> nd, min |-> min]
    ELSE IF nd[y].mark
    THEN LET r == cut(nd, min, y, z) IN cascading_cut(r.nd, r.min, z)
    ELSE [nd |-> [nd EXCEPT ![y].mark = TRUE], min |-> min]

\* one child x of the popped node, before it joins the roots: its parent is
\* cleared and its two neighbours are pointed at themselves
detach_child(nd, x) ==
    LET n1 == [nd EXCEPT ![x].p = Null]
        n2 == [n1 EXCEPT ![n1[x].left].right = n1[x].left]
    IN  [n2 EXCEPT ![n2[x].right].left = n2[x].right]

\* the do-while of pop that moves the children of z to the root ring:
\* [nd, min, ok]; ok is FALSE when the loop comes back to a state it was in
RECURSIVE promote_children(_, _, _, _)

\* the loop test after insert_node(x) returned r, with next_x read before it
promote_next(r, x, next_x, seen) ==
    IF next_x = x THEN [nd |-> r.nd, min |-> r.min, ok |-> TRUE]
    ELSE IF <<r.nd, r.min, next_x>> \in seen THEN [nd |-> r.nd, min |-> r.min, ok |-> FALSE]
    ELSE promote_children(r.nd, r.min, next_x, seen \cup {<<r.nd, r.min, next_x>>})

promote_children(nd, min, next_x, seen) ==
    promote_next(insert_node(detach_child(nd, next_x), min, next_x),
                 next_x, nd[next_x].right, seen)

\* z leaves the root ring
unlink_min(nd, z) ==
    LET n1 == IF nd[z].right # z
              THEN [nd EXCEPT ![nd[z].right].left = nd[z].left]
              ELSE nd
    IN  IF n1[z].left # z
        THEN [n1 EXCEPT ![n1[z].left].right = n1[z].right]
        ELSE n1

\* pop once the children of z are roots (c is what the loop left): min moves
\* to z's right neighbour, z is unlinked, the roots are consolidated
fib_pop_tail(c, z) ==
    IF ~c.ok THEN [nd |-> c.nd, min |-> c.min, status |-> "hang"]
    ELSE consolidate(unlink_min(c.nd, z),
                     IF c.nd[z].right = z THEN Null ELSE c.nd[z].right)

\* the body of FibHeap::pop for a non-null minimum z = min: [nd, min, status]
fib_pop_body(nd, min) ==
    fib_pop_tail(IF nd[min].child # Null
                 THEN promote_children(nd, min, nd[min].child, {})
                 ELSE [nd |-> nd, min |-> min, ok |-> TRUE],
                 min)

\* FibHeap::decrease_key without its last two lines: min is not moved to N
fib_decrease_key_keeps_min(nd, min, N, new_key) ==
    IF nd[N].key < new_key
    THEN [nd |-> nd, min |-> min, status |-> "out_of_range"]
    ELSE LET n1 == [nd EXCEPT ![N].key = new_key]
             y == n1[N].p
             r == IF y # Null /\ n1[N].key < n1[y].key
                  THEN LET c == cut(n1, min, N, y) IN cascading_cut(c.nd, c.min, y)
                  ELSE [nd |-> n1, min |-> min]
         IN  [nd |-> r.nd, min |-> r.min,
              status |-> IF r.min = Null THEN "crash" ELSE "ok"]

\* FibHeap::decrease_key on a heap with minimum pointer min: [nd, min, status];
\* status is "out_of_range" for the throw, "crash" when the last comparison
\* goes through a null min
fib_decrease_key(nd, min, N, new_key) ==
    IF nd[N].key < new_key
    THEN [nd |-> nd, min |-> min, status |-> "out_of_range"]
    ELSE LET n1 == [nd EXCEPT ![N].key = new_key]
             y == n1[N].p
             r == IF y # Null /\ n1[N].key < n1[y].key
                  THEN LET c == cut(n1, min, N, y) IN cascading_cut(c.nd, c.min, y)
                  ELSE [nd |-> n1, min |-> min]
         IN  IF r.min = Null
             THEN [nd |-> r.nd, min |-> r.min, status |-> "crash"]
             ELSE [nd |-> r.nd,
                   min |-> IF r.nd[N].key < r.nd[r.min].key THEN N ELSE r.min,
                   status |-> "ok"]

\* the do-while of add_heap over the ring of H: [nd, min, ok]; ok is FALSE
\* when the loop comes back to a state it was in and so never ends
RECURSIVE add_heap_loop(_, _, _, _, _)
add_heap_loop(nd, min, merged, Hmin, seen) ==
    LET r == insert_node(nd, min, merged)
        nx == r.nd[merged].right
        st == <<r.nd, r.min, nx>>
    IN  IF nx = Hmin THEN [nd |-> r.nd, min |-> r.min, ok |-> TRUE]
        ELSE IF st \in seen THEN [nd |-> r.nd, min |-> r.min, ok |-> FALSE]
        ELSE add_heap_loop(r.nd, r.min, nx, Hmin, seen \cup {st})

\* NodePtr insert(const T &key)
FibInsert(h) ==
    /\ kind = "FibHeap" /\ Running /\ Usable(h)
    /\ Allocated < scope.nodes
    /\ \E key \in 1..scope.keys :
         LET x == NewNodeId
             n1 == [fnode EXCEPT ![x] = [FNewNode EXCEPT !.key = key, !.left = x, !.right = x]]
             r == insert_node(n1, fheap[h].min, x)
         IN  /\ fnode' = r.nd
             /\ fheap' = [fheap EXCEPT ![h] = [min |-> r.min, size |-> @.size + 1]]
             /\ handle' = [handle EXCEPT ![x] = x]
             /\ owner' = [owner EXCEPT ![x] = h]
             /\ pending' = [pending EXCEPT ![h] = BagAdd(Stored(h), key)]
             /\ out' = [out EXCEPT ![h] = <<>>]
             /\ cnt' = [cnt EXCEPT ![h] = @ + 1]
             /\ phase' = IF phase = "build" THEN "build" ELSE "mixed"
             /\ ret' = Ret("insert", h, "ok", 0)
    /\ UNCHANGED <<kind, scope, bvars, invalidated>>

\* T pop()
FibPop(h) ==
    /\ kind = "FibHeap" /\ Running /\ Usable(h)
    /\ IF fheap[h].min = Null
       THEN /\ ret' = Ret("pop", h, "out_of_range", 0)
            /\ UNCHANGED <<fvars, owner, out, cnt, phase>>
       ELSE \E r \in {fib_pop_body(fnode, fheap[h].min)} :
            LET z == fheap[h].min IN
            /\ fnode' = r.nd
            /\ fheap' = [fheap EXCEPT ![h] = [min |-> r.min, size |-> @.size - 1]]
            /\ owner' = [owner EXCEPT ![z] = "popped"]
            /\ IF r.status = "ok"
               THEN /\ out' = [out EXCEPT ![h] = Append(@, r.nd[z].key)]
                    /\ ret' = Ret("pop", h, "ok", r.nd[z].key)
               ELSE /\ out' = out
                    /\ ret' = Ret("pop", h, r.status, 0)
            /\ cnt' = [cnt EXCEPT ![h] = @ - 1]
            /\ phase' = IF phase = "melded" /\ h = "A" THEN "melded" ELSE "mixed"
    /\ UNCHANGED <<kind, scope, bvars, handle, pending, invalidated>>

\* T &get_min() const noexcept: a null min is dereferenced
FibGetMinOutcomes(h) ==
    IF fheap[h].min = Null
    THEN {Ret("get_min", h, "crash", 0)}
    ELSE {Ret("get_min", h, "ok", fnode[fheap[h].min].key)}

FibGetMin(h) ==
    /\ kind = "FibHeap" /\ Running /\ Usable(h)
    /\ ret' \in FibGetMinOutcomes(h)
    /\ UNCHANGED <<kind, scope, bvars, fvars, handle, owner, pending, out, cnt, phase, invalidated>>

\* void decrease_key(NodePtr &N, const T &new_key), called on the heap that holds N
FibDecreaseKey ==
    /\ kind = "FibHeap" /\ Running
    /\ \E i \in Nodes, new_key \in 1..scope.keys :
         LET N == handle[i] IN
         /\ N # Null /\ owner[N] \in HeapIds
         /\ LET h == owner[N]
                r == fib_decrease_key(fnode, fheap[h].min, N, new_key)
            IN  /\ fnode' = r.nd
                /\ fheap' = [fheap EXCEPT ![h].min = r.min]
                /\ ret' = Ret("decrease_key", h, r.status,
                              IF fnode[N].key < new_key THEN 1 ELSE 0)
                /\ IF r.status = "out_of_range"
                   THEN UNCHANGED <<pending, out, phase>>
                   ELSE /\ pending' = [pending EXCEPT
                                         ![h] = BagLower(Stored(h), fnode[N].key, new_key)]
                        /\ out' = [out EXCEPT ![h] = <<>>]
                        /\ phase' = "mixed"
    /\ UNCHANGED <<kind, scope, bvars, handle, owner, cnt, invalidated>>

\* void add_heap(FibHeap<T> &H), called as A.add_heap(B): neither _size is touched
FibAddHeap ==
    /\ kind = "FibHeap" /\ Running /\ ~invalidated
    /\ LET Hmin == fheap["B"].min
           r == IF Hmin = Null
                THEN [nd |-> fnode, min |-> fheap["A"].min, ok |-> TRUE]
                ELSE add_heap_loop(fnode, fheap["A"].min, Hmin, Hmin, {})
       IN  /\ fnode' = r.nd
           /\ fheap' = [fheap EXCEPT !["A"].min = r.min]
           /\ ret' = Ret("add_heap", "A", IF r.ok THEN "ok" ELSE "hang", 0)
    /\ owner' = [n \in Nodes |-> IF owner[n] = "B" THEN "A" ELSE owner[n]]
    /\ pending' = [pending EXCEPT !["A"] = BagPlus(Stored("A"), Stored("B")),
                                  !["B"] = EmptyBag]
    /\ out' = [h \in HeapIds |-> <<>>]
    /\ cnt' = [cnt EXCEPT !["A"] = cnt["A"] + cnt["B"], !["B"] = 0]
    /\ phase' = IF phase = "build" THEN "melded" ELSE "mixed"
    /\ invalidated' = TRUE
    /\ UNCHANGED <<kind, scope, bvars, handle>>

----------------------------------------------------------------------------

Init ==
    /\ kind \in {"Bheap", "FibHeap"}
    /\ scope \in Scopes
    /\ bnode = [n \in Nodes |-> BNewNode]
    /\ bheap = [h \in HeapIds |-> [head |-> Null, size |-> 0]]
    /\ fnode = [n \in Nodes |-> FNewNode]
    /\ fheap = [h \in HeapIds |-> [min |-> Null, size |-> 0]]
    /\ handle = [n \in Nodes |-> Null]
    /\ owner = [n \in Nodes |-> "free"]
    /\ pending = [h \in HeapIds |-> EmptyBag]
    /\ out = [h \in HeapIds |-> <<>>]
    /\ cnt = [h \in HeapIds |-> 0]
    /\ phase = "build"
    /\ invalidated = FALSE
    /\ ret = Ret("new", "A", "ok", 0)

\* a client that only inserts, pops and reads the minimum of one heap
NextSort ==
    \/ BheapInsert("A")
    \/ BheapPop("A")
    \/ BheapGetMin("A")
    \/ FibInsert("A")
    \/ FibPop("A")
    \/ FibGetMin("A")

SpecSort == Init /\ [][NextSort]_vars

\* a client that also lowers keys through its handles
NextDec ==
    \/ BheapInsert("A")
    \/ BheapPop("A")
    \/ BheapDecreaseKey
    \/ FibInsert("A")
    \/ FibPop("A")
    \/ FibDecreaseKey

SpecDec == Init /\ [][NextDec]_vars

\* a client with two heaps that merges B into A
NextMeld ==
    \/ \E h \in HeapIds : BheapInsert(h)
    \/ \E h \in HeapIds : BheapPop(h)
    \/ BheapAddHeap
    \/ \E h \in HeapIds : FibInsert(h)
    \/ \E h \in HeapIds : FibPop(h)
    \/ FibAddHeap

SpecMeld == Init /\ [][NextMeld]_vars

\* a client that first inserts the key SeedKey SeedNodes times into A and pops
\* once, and from there only lowers keys: the pop leaves a tree deep enough
\* for a cut to cascade

\* the key of the seed: the largest key of the smaller key range
SeedKey == MaxKey - 1

\* the heap after the inserts x .. SeedNodes: [nd, min]
RECURSIVE seed_inserts(_, _, _)

seed_next(r, x) == seed_inserts(r.nd, r.min, x + 1)

seed_inserts(nd, min, x) ==
    IF x > SeedNodes THEN [nd |-> nd, min |-> min]
    ELSE seed_next(insert_node([nd EXCEPT ![x] = [FNewNode EXCEPT !.key = SeedKey,
                                                                   !.left = x, !.right = x]],
                               min, x), x)

\* the first minimum, and the heap after it was popped: [nd, min, status]
seed_popped(s) == [z |-> s.min, r |-> fib_pop_body(s.nd, s.min)]

InitCascade ==
    /\ kind = "FibHeap"
    /\ scope = [nodes |-> SeedNodes, keys |-> SeedKey]
    /\ bnode = [n \in Nodes |-> BNewNode]
    /\ bheap = [h \in HeapIds |-> [head |-> Null, size |-> 0]]
    /\ \E s \in {seed_popped(seed_inserts([n \in Nodes |-> FNewNode], Null, 1))} :
          /\ fnode = s.r.nd
          /\ fheap = [h \in HeapIds |-> IF h = "A"
                                          THEN [min |-> s.r.min, size |-> SeedNodes - 1]
                                          ELSE [min |-> Null, size |-> 0]]
          /\ owner = [n \in Nodes |-> IF n > SeedNodes THEN "free"
                                      ELSE IF n = s.z THEN "popped" ELSE "A"]
          /\ ret = Ret("pop", "A", s.r.status, SeedKey)
    /\ handle = [n \in Nodes |-> IF n > SeedNodes THEN Null ELSE n]
    /\ pending = [h \in HeapIds |-> IF h = "A" THEN [k \in Keys |-> IF k = SeedKey THEN SeedNodes ELSE 0]
                                    ELSE EmptyBag]
    /\ out = [h \in HeapIds |-> IF h = "A" THEN <<SeedKey>> ELSE <<>>]
    /\ cnt = [h \in HeapIds |-> IF h = "A" THEN SeedNodes - 1 ELSE 0]
    /\ phase = "mixed"
    /\ invalidated = FALSE

NextCascade ==
    \/ FibDecreaseKey

SpecCascade == InitCascade /\ [][NextCascade]_vars

----------------------------------------------------------------------------
(* What the claims speak about *)

HeapSize(h) == IF kind = "Bheap" THEN bheap[h].size ELSE fheap[h].size

SubBag(b, c) == \A k \in Keys : b[k] <= c[k]

\* the keys popped so far came out in order and were all held
PoppedInOrder(h) == IsSorted(out[h]) /\ SubBag(BagOfSeq(out[h]), pending[h])

\* the nodes on the child chain of p (Bheap)
RECURSIVE chain_nodes(_, _)
chain_nodes(x, acc) ==
    IF x = Null \/ x \in acc THEN acc ELSE chain_nodes(bnode[x].sibling, acc \cup {x})

BChildChain(p) == chain_nodes(bnode[p].child, {})

\* the nodes of the ring that starts at x (FibHeap)
FRing(x) == IF x = Null THEN [ok |-> TRUE, nodes |-> <<>>]
            ELSE ring_walk(fnode, x, x, <<>>)

SeqSet(q) == {q[i] : i \in DOMAIN q}

FChildRing(p) == SeqSet(FRing(fnode[p].child).nodes)

\* C1: for both heaps, inserting keys into an empty heap and popping until
\* size() is 0 returns exactly the inserted keys, each once, in
\* non-decreasing order (no pop fails while size() is positive)
C1_SortedExtraction ==
    /\ PoppedInOrder("A")
    /\ (HeapSize("A") > 0 => ~(ret.op = "pop" /\ ret.status # "ok"))
    /\ (HeapSize("A") = 0 => BagOfSeq(out["A"]) = pending["A"])

\* a Fibonacci heap filled out of order with four keys and popped until empty
C1_Witness ==
    /\ kind = "FibHeap" /\ HeapSize("A") = 0 /\ ret.op = "pop"
    /\ Len(out["A"]) = 4 /\ out["A"][1] < out["A"][2] /\ out["A"][2] < out["A"][4]
    /\ fnode[1].key > fnode[2].key

\* C2: for both heaps, size() equals the number of keys inserted minus the
\* number popped after any insert, pop and add_heap calls; A.add_heap(B) adds
\* the size B had to A.size() and leaves B.size() at 0
C2_SizeAccounting == \A h \in HeapIds : HeapSize(h) = cnt[h]

\* C3: for binomial heaps A and B built by inserts, after A.add_heap(B) a
\* value A.get_min() returns is the smallest key of both, and popping A
\* returns every key of A and B once, in non-decreasing order, with no pop
\* failing while keys of A or B are still to be returned
C3_BheapMeld ==
    (kind = "Bheap" /\ phase = "melded") =>
        /\ PoppedInOrder("A")
        /\ ~BagIsEmpty(Stored("A")) =>
              /\ ~(ret.op = "pop" /\ ret.status # "ok")
              /\ \A o \in BheapGetMinOutcomes("A") :
                    o.status = "ok" => o.val = BagMin(Stored("A"))

\* C4: for Fibonacci heaps A and B built by inserts, after A.add_heap(B) the
\* root ring of A holds every root of A and of B exactly once, the cached
\* minimum is the smaller of the two minima, and popping A returns every key
\* of both once in non-decreasing order
C4_FibMeld ==
    (kind = "FibHeap" /\ phase = "melded" /\ Running) =>
        /\ PoppedInOrder("A")
        /\ ret.op = "add_heap" =>
              /\ FRing(fheap["A"].min).ok
              /\ SeqSet(FRing(fheap["A"].min).nodes) = Members("A")
        /\ ~BagIsEmpty(Stored("A")) =>
              /\ ~(ret.op = "pop" /\ ret.status # "ok")
              /\ \A o \in FibGetMinOutcomes("A") :
                    o.status = "ok" /\ o.val = BagMin(Stored("A"))

\* C5: for Bheap, after any insert, pop and decrease_key calls (no new key
\* above the node's key) a value get_min() returns is the smallest stored
\* key, and popping until empty returns the stored keys in non-decreasing order
C5_BheapDecreaseKey ==
    kind = "Bheap" =>
        /\ PoppedInOrder("A")
        /\ (HeapSize("A") = 0 => BagOfSeq(out["A"]) = pending["A"])
        /\ ~BagIsEmpty(Stored("A")) =>
              \A o \in BheapGetMinOutcomes("A") :
                 o.status = "ok" => o.val = BagMin(Stored("A"))

\* C6: for FibHeap, after any insert, pop and decrease_key calls that leave
\* the heap non-empty, the cached minimum is a root whose key is at most the
\* key of every node of the heap, so get_min() returns the smallest key
C6_FibMinimum ==
    (kind = "FibHeap" /\ Members("A") # {}) =>
        LET m == fheap["A"].min IN
        /\ m # Null
        /\ owner[m] = "A"
        /\ fnode[m].p = Null
        /\ \A n \in Members("A") : fnode[m].key <= fnode[n].key
        /\ \A o \in FibGetMinOutcomes("A") :
              o.status = "ok" /\ o.val = BagMin(Stored("A"))

\* a decrease_key that cut a node below a non-root and made it the only minimum
C6_Witness ==
    /\ kind = "FibHeap" /\ ret.op = "decrease_key" /\ ret.status = "ok"
    /\ \E n \in Members("A") : fnode[n].mark
    /\ \A n \in Members("A") \ {fheap["A"].min} :
          fnode[fheap["A"].min].key < fnode[n].key

\* C7: in Bheap, after any insert, pop, add_heap and decrease_key calls, every
\* node on the child chain of a node p has a key not smaller than p's key
C7_BheapHeapOrder ==
    kind = "Bheap" =>
        \A p \in Members("A") : \A n \in BChildChain(p) : bnode[p].key <= bnode[n].key

\* C8: in FibHeap, after any insert, pop and decrease_key calls, every node
\* in the child ring of a node p has a key not smaller than p's key
C8_FibHeapOrder ==
    kind = "FibHeap" =>
        \A p \in Members("A") : \A n \in FChildRing(p) : fnode[p].key <= fnode[n].key

\* a decrease_key has cut a grandchild: its former parent is a marked child
C8_Witness ==
    /\ kind = "FibHeap" /\ ret.op = "decrease_key" /\ ret.status = "ok"
    /\ \E p \in Members("A") : \E n \in FChildRing(p) : fnode[n].mark

\* C9: for both heaps, decrease_key with a new key above the node's key fails
\* with out_of_range and leaves every key, link, degree and mark, the head or
\* minimum pointer and size() as they were
C9_RejectedIncrease ==
    [][(ret'.op = "decrease_key" /\ (ret'.val = 1 \/ ret'.status = "out_of_range"))
        => /\ ret'.status = "out_of_range"
           /\ bnode' = bnode /\ bheap' = bheap /\ fnode' = fnode /\ fheap' = fheap]_vars

\* a rejected decrease_key on a binomial heap that has a tree of two levels
C9_Witness ==
    /\ kind = "Bheap" /\ ret.op = "decrease_key" /\ ret.val = 1
    /\ ret.status = "out_of_range"
    /\ \E n \in Members("A") : bnode[n].p # Null

\* C10: for both heaps, get_min() on a heap without elements fails with an
\* explicit error and never dereferences a missing head or minimum
C10_EmptyGetMin ==
    (ret.op = "get_min" /\ Members(ret.h) = {}) => ret.status = "out_of_range"

\* C11: for both heaps, pop() on a heap that holds no element fails with
\* out_of_range, changes no node and no head, minimum or size, and leaves
\* size() at 0
C11_EmptyPop ==
    [][(ret'.op = "pop" /\ Members(ret'.h) = {})
        => /\ ret'.status = "out_of_range"
           /\ bnode' = bnode /\ bheap' = bheap /\ fnode' = fnode /\ fheap' = fheap
           /\ (IF kind = "Bheap" THEN bheap'[ret'.h].size ELSE fheap'[ret'.h].size) = 0]_vars

\* a Fibonacci heap emptied by pops, then popped once more
C11_Witness ==
    /\ kind = "FibHeap" /\ ret.op = "pop" /\ ret.status = "out_of_range"
    /\ Members("A") = {} /\ \E n \in Nodes : owner[n] = "popped"

\* the nodes from n up its parent chain (Bheap)
RECURSIVE parent_chain(_, _)
parent_chain(n, acc) ==
    IF n = Null \/ n \in acc THEN acc ELSE parent_chain(bnode[n].p, acc \cup {n})

\* C12: Bheap::decrease_key with a key not above the node's changes only keys,
\* and only on one path from a node to its tree root: no parent, child or
\* sibling link and no degree changes, and every handle of the caller refers
\* to the node it referred to before the call
C12_DecreaseKeyFrame ==
    [][(kind = "Bheap" /\ ret'.op = "decrease_key" /\ ret'.status = "ok")
        => /\ handle' = handle
           /\ \A n \in Nodes :
                 /\ bnode'[n].p = bnode[n].p
                 /\ bnode'[n].child = bnode[n].child
                 /\ bnode'[n].sibling = bnode[n].sibling
                 /\ bnode'[n].degree = bnode[n].degree
           /\ \E h \in Nodes :
                 \A n \in Nodes : bnode'[n].key # bnode[n].key => n \in parent_chain(h, {})]_vars

\* whether degrees strictly increase along the sibling chain that starts at x
RECURSIVE degrees_increase(_, _)
degrees_increase(x, seen) ==
    IF x = Null \/ bnode[x].sibling = Null THEN TRUE
    ELSE IF bnode[x].sibling \in seen THEN FALSE
    ELSE /\ bnode[x].degree < bnode[bnode[x].sibling].degree
         /\ degrees_increase(bnode[x].sibling, seen \cup {x})

\* C13: after every Bheap insert, pop and add_heap, the degrees of the root
\* chain that starts at head strictly increase from one root to the next
C13_RootDegreesIncrease ==
    kind = "Bheap" => \A h \in HeapIds : Usable(h) => degrees_increase(bheap[h].head, {})

\* the child chain of p as a sequence, first child first (Bheap)
RECURSIVE chain_seq(_, _)
chain_seq(x, acc) ==
    IF x = Null \/ x \in SeqSet(acc) THEN acc ELSE chain_seq(bnode[x].sibling, Append(acc, x))

\* the nodes reachable from x through child and sibling links, to depth fuel
RECURSIVE forest_nodes(_, _)
forest_nodes(x, fuel) ==
    IF x = Null \/ fuel = 0 THEN {}
    ELSE {x} \cup forest_nodes(bnode[x].child, fuel - 1)
             \cup forest_nodes(bnode[x].sibling, fuel - 1)

\* the tree rooted at p
tree_nodes(p) == {p} \cup forest_nodes(bnode[p].child, MaxNodes)

\* C14: in every Bheap state reached by insert, pop and add_heap, a node's
\* degree is the number of nodes on its child chain, the k-th child from the
\* end of the chain has degree k-1 (two roots were linked only at equal
\* degree), and the tree of a node of degree d holds exactly 2^d nodes
C14_BinomialTrees ==
    kind = "Bheap" =>
        \A p \in Members("A") \cup Members("B") :
            LET cs == chain_seq(bnode[p].child, <<>>) IN
            /\ bnode[p].degree = Len(cs)
            /\ \A i \in DOMAIN cs : bnode[cs[i]].degree = Len(cs) - i
            /\ Cardinality(tree_nodes(p)) = 2 ^ bnode[p].degree

\* an add_heap that linked two trees of degree 1 into one of degree 2
C14_Witness ==
    /\ kind = "Bheap" /\ ret.op = "add_heap"
    /\ \E p \in Members("A") : bnode[p].degree = 2 /\ bnode[p].p = Null

\* the nodes of the root ring of heap h (FibHeap)
RootRing(h) == SeqSet(FRing(fheap[h].min).nodes)

\* C15: in every FibHeap state reached by insert, pop and decrease_key, no
\* node of the root ring is marked
C15_RootsUnmarked ==
    kind = "FibHeap" => \A n \in RootRing("A") : ~fnode[n].mark

\* the nodes that had a parent before the step and have none after it
CutNodes == {n \in Nodes : fnode[n].p # Null /\ fnode'[n].p = Null}

\* the nodes that the step marked
NewlyMarked == {n \in Nodes : ~fnode[n].mark /\ fnode'[n].mark}

\* C16: in one FibHeap::decrease_key call, a node whose new key is below its
\* parent's key is cut; every cut node is the lowered node or the marked
\* non-root parent of a cut node, and ends as an unmarked node of the root
\* ring without a parent; the parent of a cut node is left a root with its
\* mark as it was when it is a root, is cut too when it is a marked non-root,
\* and is marked and keeps its parent when it is an unmarked non-root; no
\* other mark changes, so at most one node goes from unmarked to marked
C16_CascadingCut ==
    [][(kind = "FibHeap" /\ ret'.op = "decrease_key" /\ ret'.status = "ok")
        => /\ \A n \in Nodes :
                 (/\ fnode'[n].key # fnode[n].key
                  /\ fnode[n].p # Null
                  /\ fnode'[n].key < fnode[fnode[n].p].key) => n \in CutNodes
           /\ \A n \in CutNodes :
                 /\ \/ fnode'[n].key # fnode[n].key
                    \/ fnode[n].mark /\ \E c \in CutNodes : fnode[c].p = n
                 /\ ~fnode'[n].mark
                 /\ n \in RootRing(owner[n])'
                 /\ LET z == fnode[n].p IN
                    IF fnode[z].p = Null
                    THEN fnode'[z].p = Null /\ fnode'[z].mark = fnode[z].mark
                    ELSE IF fnode[z].mark
                    THEN z \in CutNodes
                    ELSE fnode'[z].mark /\ fnode'[z].p = fnode[z].p
           /\ \A n \in Nodes :
                 fnode'[n].mark # fnode[n].mark =>
                    \/ n \in CutNodes
                    \/ /\ n \in NewlyMarked /\ fnode[n].p # Null
                       /\ \E c \in CutNodes : fnode[c].p = n
           /\ Cardinality(NewlyMarked) <= 1]_vars

\* a cut has cascaded: two roots still have the key of the seed, and only one
\* node was a root in the seed, so the other became a root without its key
\* being lowered
C16_Witness ==
    /\ kind = "FibHeap" /\ ret.op = "decrease_key" /\ ret.status = "ok"
    /\ \E y, r \in RootRing("A") :
          /\ y # r
          /\ fnode[y].key = SeedKey /\ fnode[r].key = SeedKey
          /\ ~fnode[y].mark /\ ~fnode[r].mark

\* C17: after every FibHeap insert, pop and decrease_key, every node n of the
\* heap has n.right.left = n and n.left.right = n, and following right from
\* the minimum, or from a child pointer, comes back to the start having
\* visited no node twice
C17_RingsConsistent ==
    kind = "FibHeap" =>
        /\ \A n \in Members("A") :
              /\ fnode[n].right # Null /\ fnode[n].left # Null
              /\ fnode[fnode[n].right].left = n
              /\ fnode[fnode[n].left].right = n
              /\ FRing(fnode[n].child).ok
        /\ FRing(fheap["A"].min).ok

\* a pop moved two children to the root ring and consolidate linked roots again
C17_Witness ==
    /\ kind = "FibHeap" /\ ret.op = "pop" /\ ret.status = "ok"
    /\ Cardinality(RootRing("A")) = 2
    /\ \E p \in RootRing("A") : fnode[p].child # Null
    /\ Cardinality({n \in Nodes : owner[n] = "popped"}) = 2

\* C18: right after a FibHeap::pop that leaves the heap non-empty, no two
\* nodes of the root ring have the same degree
C18_RootDegreesDistinct ==
    (kind = "FibHeap" /\ ret.op = "pop" /\ ret.status = "ok" /\ Members("A") # {}) =>
        /\ RootRing("A") # {}
        /\ \A a, b \in RootRing("A") : a # b => fnode[a].degree # fnode[b].degree

\* a pop after a decrease_key had cut a node: consolidate left two roots, of
\* degrees 0 and 1, and a node is still marked
C18_Witness ==
    /\ kind = "FibHeap" /\ ret.op = "pop" /\ ret.status = "ok"
    /\ Cardinality(RootRing("A")) = 2
    /\ \E a, b \in RootRing("A") : fnode[a].degree = 0 /\ fnode[b].degree = 1
    /\ \E n \in Members("A") : fnode[n].mark

\* C19: every A.add_heap(B) on Fibonacci heaps built by inserts returns: the
\* loop over B's root ring ends
C19_AddHeapTerminates ==
    (kind = "FibHeap" /\ ret.op = "add_heap") => ret.status = "ok"

\* C20: in consolidate, for every heap reachable by insert, pop and
\* decrease_key, every index used on the bucket vector is below its size
\* max_d + num_trees: no pop ends by leaving the vector
C20_BucketIndexInRange ==
    (kind = "FibHeap" /\ ret.op = "pop") => ret.status # "crash"

\* a pop whose consolidate carried a root up to bucket 2
C20_Witness ==
    /\ kind = "FibHeap" /\ ret.op = "pop" /\ ret.status = "ok"
    /\ \E n \in RootRing("A") : fnode[n].degree = 2

====
